---- MODULE Spec2Model ----
(***************************************************************************)
(* uidecorators: decorators that attach UI metadata to setter methods      *)
(* (ui_decorators.py) and the Qt adapter that binds them to controls and   *)
(* dispatches work to the UI thread (qt_framework.py).                     *)
(*                                                                         *)
(* Spec          the UI thread running the demo class Test: binding,       *)
(*               direct setter calls, control edits, listener registration *)
(* CoreSpec      ui_decorators.py alone, two instances, no framework       *)
(* EagerSpec     Spec on a toolkit whose controls signal every set         *)
(* BindFailSpec  Spec with getters that raise while controls are built     *)
(* DispatchSpec  run_on_ui_thread / on_queue_updated with worker threads   *)
(* LiveDispatchSpec  DispatchSpec with the event loop's fairness           *)
(* MetaSpec      the metadata decorator applied to and called on functions *)
(***************************************************************************)
EXTENDS Integers, Sequences, FiniteSets, TLC

\* ------------------------------------------------------------- bounds
MaxVal == 1          \* numeric arguments range over 0..MaxVal
MaxUser == 1         \* listeners the application appends in one run
MaxTasks == 3        \* run_on_ui_thread calls in one run

\* ------------------------------------------------------------- program constants
InitValue == 0       \* Test.__init__: self.value = 0
InitHeight == 5      \* Test.__init__: self._height = 5
DefaultScale == 1    \* slider(..., scale=1)

\* ------------------------------------------------------------- python values
\* A value is a tagged record: int n, float n.0, the decimal text of an int
\* ("str"), the text of a float "n.0" ("fstr"), the empty text, or None.
None == [t |-> "none", n |-> 0]
IntV(n) == [t |-> "int", n |-> n]
FloatV(n) == [t |-> "float", n |-> n]
StrV(n) == [t |-> "str", n |-> n]
FStrV(n) == [t |-> "fstr", n |-> n]
EmptyText == [t |-> "text", n |-> 0]

NoExc == "none"

\* float(val): ValueError on text that is no number
FloatRaises(v) == v.t \in {"text", "none"}
PyFloat(v) == FloatV(v.n)

\* str(val)
PyStr(v) ==
  CASE v.t = "int" -> StrV(v.n)
    [] v.t = "float" -> FStrV(v.n)
    [] OTHER -> v

\* newv * scale on numbers
PyMul(v, k) == [t |-> v.t, n |-> v.n * k]

\* x / scale on ints (Python 2 floor division)
PyDiv(v, k) == [t |-> v.t, n |-> v.n \div k]

\* QSlider.setValue(number): the position is an int
SetValue(v) == IntV(v.n)

\* "if ret is None" (python truthiness of a value, for comparison)
Falsy(v) == v.t \in {"none", "text"} \/ (v.t \in {"int", "float"} /\ v.n = 0)

\* ------------------------------------------------------------- the class Test
Instances == {"A", "B"}
Setters == {"test", "test2", "height"}

\* decorators stacked on the method, innermost first
KindsOf(s) == IF s = "height" THEN <<"textbox", "slider">> ELSE <<"slider">>

\* number of notifying_setter wrappers around the method body
Layers(s) == Len(KindsOf(s))

\* get_test / get_height
GetFunc(s, o) == IF s = "height" THEN o.height ELSE o.value

\* get_obj_widget walks dir(obj) (sorted by name); get_widgets_for_method
\* tests _slider before _textbox
BindOrder ==
  << <<"height", "slider">>, <<"height", "textbox">>,
     <<"test", "slider">>, <<"test2", "slider">> >>

Widgets == {<<i, BindOrder[k][1], BindOrder[k][2]>> : i \in Instances, k \in 1..Len(BindOrder)}
WInst(w) == w[1]
WSetter(w) == w[2]
WKind(w) == w[3]

\* listeners: the adapter's updater of a control, or a callable the user appended
Upd(w) == [k |-> "upd", w |-> w, i |-> WInst(w), s |-> WSetter(w), n |-> 0]
UserL(i, s, n) == [k |-> "user", w |-> <<i, s, "none">>, i |-> i, s |-> s, n |-> n]

\* decorations the model ranges over: the demo's (default scale, every setter
\* given its getfunc), a larger scale, and setters decorated without getfunc
Scales == {DefaultScale, DefaultScale + 1}
AllGetters == [s \in Setters |-> TRUE]
GetterChoices(M) == {g \in [Setters -> BOOLEAN] : \A s \in Setters \ M : g[s]}
\* test2 calls test; height shares no field, list or control with them: a run
\* exercises one of the two groups
Groups == {{"test", "test2"}, {"height"}}

VARIABLES
  methods,           \* the decorated setters the run exercises
  insts,             \* the instances of Test the application constructed
  eager,             \* whether a control signals a change on every set of its value
  raising,           \* the setters whose getfunc raises
  obj,               \* obj[i]: the instance's fields value and _height
  lists,             \* lists[slot]: the attribute _<name>_listeners, None or a list
  scale,             \* the scale the sliders were decorated with
  getter,            \* getter[s]: whether the decorator was given a getfunc
  widgets,           \* the controls created so far
  display,           \* display[w]: the control's displayed value
  changing_widgets,  \* Framework.changing_widgets
  bound,             \* instances get_obj_widget has returned for
  stack,             \* the UI thread's call stack
  exc,               \* the exception in flight, or NoExc
  retreg,            \* the value the last call returned
  ev,                \* what the last step did (observation only)
  q,                 \* Framework.q
  pending,           \* queued _queue_updated deliveries
  emitting,          \* tasks a worker thread has put and not yet signalled
  ustack,            \* the UI thread's stack of drains and tasks
  issued,            \* tasks in the order they were put on the queue
  started,           \* tasks in the order they started to run
  raisedTasks,       \* tasks whose run raised
  late,              \* tasks a worker put while on_queue_updated was running
  stranded,          \* tasks that were queued when a raising task ended its drain
  fobjs,             \* the function objects metadata was applied to or returned
  mcall              \* the last call of one of them: its argument and outcome

bindVars == <<methods, insts, eager, raising, obj, lists, scale, getter, widgets, display, changing_widgets, bound,
              stack, exc, retreg, ev>>
dispVars == <<q, pending, emitting, ustack, issued, started, raisedTasks, late, stranded>>
metaVars == <<fobjs, mcall>>
vars == <<methods, insts, eager, raising, obj, lists, scale, getter, widgets, display, changing_widgets, bound,
          stack, exc, retreg, ev, q, pending, emitting, ustack, issued, started, raisedTasks,
          late, stranded, fobjs, mcall>>


\* ------------------------------------------------------------- helpers
Member(x, sq) == \E k \in 1..Len(sq) : sq[k] = x

\* list.remove(x): drops the first occurrence
RECURSIVE RemoveFirst(_, _)
RemoveFirst(sq, x) ==
  IF sq = <<>> THEN <<>>
  ELSE IF Head(sq) = x THEN Tail(sq)
  ELSE <<Head(sq)>> \o RemoveFirst(Tail(sq), x)

Top == stack[Len(stack)]
Pop == SubSeq(stack, 1, Len(stack) - 1)
ReplaceTop(f) == [stack EXCEPT ![Len(stack)] = f]
Idle == stack = <<>>

\* ------------------------------------------------------------- notifying_setter
Absent == [has |-> FALSE, l |-> <<>>]

\* (variant) one list per setter name, kept on the class
ListSlot_Shared(i, s) == <<"A", s>>

\* (variant) one list per instance, whatever the setter's name
ListSlot_PerInstance(i, s) == <<i, "test">>

\* the attribute "_<name>_listeners" set on the instance itself
ListSlot(i, s) == <<i, s>>

\* get_listeners: the stored list, created empty when the attribute is missing
GetListeners(ls, slot) ==
  IF ls[slot].has THEN ls ELSE [ls EXCEPT ![slot] = [has |-> TRUE, l |-> <<>>]]

\* (variant) the loop walks the list back to front
ListenerAt_Reversed(lst, idx) == lst[Len(lst) + 1 - idx]

\* the for loop walks the list front to back
ListenerAt(lst, idx) == lst[idx]

\* (variant) "if ret:" in place of "if ret is None"
Payload_Truthy(ret, arg) == IF ~Falsy(ret) THEN ret ELSE arg

\* l(*args) when ret is None, else l(ret)
Payload(ret, arg) == IF ret # None THEN ret ELSE arg

\* return ret
NewfuncResult(f) == f.ret

\* (variant) the call wrapped in try/except that goes on to notify
FuncErrorLeaves_Swallowed(e) == FALSE

\* a raise in func leaves newfunc at once: there is no try around the call
FuncErrorLeaves(e) == e # NoExc

\* (variant) each listener called inside try/except
ListenerErrorLeaves_Isolated(e) == FALSE

\* a raise in a listener leaves the loop and newfunc: the call l(...) is bare
ListenerErrorLeaves(e) == e # NoExc

NewfuncFrame(s, i, layer, arg) ==
  [k |-> "newfunc", s |-> s, i |-> i, layer |-> layer, arg |-> arg, pc |-> "func",
   idx |-> 1, ret |-> None, fret |-> None, fexc |-> NoExc, funcDone |-> FALSE,
   invoked |-> <<>>, pays |-> <<>>, snap |-> lists[ListSlot(i, s)].l, below |-> <<>>,
   lraised |-> FALSE]

ReturnEv(f, lexc) ==
  [e |-> "return", s |-> f.s, i |-> f.i, layer |-> f.layer, arg |-> f.arg,
   fret |-> f.fret, fexc |-> f.fexc, lexc |-> lexc, funcDone |-> f.funcDone,
   invoked |-> f.invoked, pays |-> f.pays, snap |-> f.snap, below |-> f.below,
   lraised |-> f.lraised,   depth |-> Len(stack)]

NoEv == [e |-> "none"]

\* ------------------------------------------------------------- Framework (binding)
\* widget_changing.setter: changing_widgets.append(widget)
EnterHandler(cw, w) == Append(cw, w)

\* (variant) the remove after the call instead of in a finally clause
LeaveHandler_NoFinally(cw, w, e) == IF e # NoExc THEN cw ELSE RemoveFirst(cw, w)

\* widget_changing.setter: finally: changing_widgets.remove(widget)
LeaveHandler(cw, w, e) == RemoveFirst(cw, w)

\* (variant) the updater without the changing_widgets test
UpdaterRuns_Unguarded(w, cw) == TRUE

\* updating_widget.updater: if widget not in self.changing_widgets
UpdaterRuns(w, cw) == ~Member(w, cw)

\* (variant) the slider set without the scale
Forward_Unscaled(kind, sc, v) == IF kind = "slider" THEN SetValue(v) ELSE PyStr(v)

\* update_widget: setValue(newv * scale) / setText(str(newv))
Forward(kind, sc, v) == IF kind = "slider" THEN SetValue(PyMul(v, sc)) ELSE PyStr(v)

\* (variant) the slider's slot passing the raw position
Inverse_Raw(kind, sc, x) == x

\* the change slot: method(x / scale) / method(x)
Inverse(kind, sc, x) == IF kind = "slider" THEN PyDiv(x, sc) ELSE x

\* valueChanged is emitted when the position changes; textEdited only on user
\* edits. A toolkit whose controls signal every set of their value is the
\* other case (eager).
Fires(kind, old, new) == eager \/ (kind = "slider" /\ old # new)

\* (variant) add_widget without the initial update
InitFromGetter_Never(has) == FALSE

\* add_widget: if found_attr.get("getfunc")
InitFromGetter(has) == has

\* curval = found_attr.get("getfunc")(method.im_self): the getter may raise
GetterRaises(s) == s \in raising

\* get_obj_widget was called for the instance before: its updaters are registered
Attempted(i) ==
  \E s \in Setters : \E k \in 1..Len(lists[<<i, s>>].l) : lists[<<i, s>>].l[k].k = "upd"

\* a fresh QSlider is at its minimum, a fresh QLineEdit is empty
DefaultDisplay(kind) == IF kind = "slider" THEN IntV(0) ELSE EmptyText

HandlerFrame(w, x) ==
  [k |-> "handler", w |-> w, x |-> x, pc |-> "start", before |-> changing_widgets,
   calls |-> <<>>]

\* the controls get_obj_widget creates, in order
InClass(b) == b[1] \in methods
BindSeq == SelectSeq(BindOrder, InClass)

BindFrame(i) == [k |-> "bind", i |-> i, pos |-> 1]

\* the stack after update_widget(w) stored new: the slot runs inside the call
AfterSet(base, w, old, new) ==
  IF Fires(WKind(w), old, new) THEN Append(base, HandlerFrame(w, new)) ELSE base

\* ------------------------------------------------------------- inputs
CallArgs(s) ==
  IF s = "height" THEN {IntV(n) : n \in 0..MaxVal} \cup {EmptyText}
  ELSE {IntV(n) : n \in 0..MaxVal}

EditValues(kind) ==
  IF kind = "slider" THEN {IntV(n) : n \in 0..(MaxVal * scale)}
  ELSE {StrV(n) : n \in 0..MaxVal} \cup {EmptyText}

UserCount(lst) == Cardinality({k \in 1..Len(lst) : lst[k].k = "user"})

RECURSIVE SumUsers(_, _)
SumUsers(ls, S) ==
  IF S = {} THEN 0
  ELSE LET x == CHOOSE y \in S : TRUE
       IN UserCount(ls[x].l) + SumUsers(ls, S \ {x})

TotalUsers == SumUsers(lists, Instances \X Setters)


\* ------------------------------------------------------------- initial state
BindRest(MS, S, G) ==
  /\ methods \in MS
  /\ obj = [i \in Instances |-> [value |-> IntV(InitValue), height |-> IntV(InitHeight)]]
  /\ lists = [slot \in Instances \X Setters |-> Absent]
  /\ scale \in S
  /\ getter \in (IF G THEN GetterChoices(methods) ELSE {AllGetters})
  /\ widgets = {}
  /\ display = [w \in Widgets |-> DefaultDisplay(WKind(w))]
  /\ changing_widgets = <<>>
  /\ bound = {}
  /\ stack = <<>>
  /\ exc = NoExc
  /\ retreg = None
  /\ ev = NoEv

BindInit ==
  /\ insts = {"A"}
  /\ eager = FALSE
  /\ raising = {}
  /\ BindRest(Groups, Scales, TRUE)

CoreBindInit ==
  /\ insts = Instances
  /\ eager = FALSE
  /\ raising = {}
  /\ BindRest(Groups, {DefaultScale}, FALSE)

\* no call of a function object made yet
NoCall == [e |-> "none"]

DispInit ==
  /\ q = <<>>
  /\ pending = 0
  /\ emitting = {}
  /\ ustack = <<>>
  /\ issued = <<>>
  /\ started = <<>>
  /\ raisedTasks = {}
  /\ late = {}
  /\ stranded = {}
  /\ fobjs = <<>>
  /\ mcall = NoCall

Init == BindInit /\ DispInit

\* the doctest's setting: instances of the class, no framework
CoreInit == CoreBindInit /\ DispInit

DispatchInit ==
  /\ insts = {"A"}
  /\ eager = FALSE
  /\ raising = {}
  /\ BindRest({{"test", "test2"}}, {DefaultScale}, FALSE)
  /\ DispInit

\* ------------------------------------------------------------- operations of the UI thread
\* S.listeners(i): the accessor alone
AccessListeners(i, s) ==
  /\ Idle
  /\ i \in insts
  /\ s \in methods
  /\ lists' = GetListeners(lists, ListSlot(i, s))
  /\ ev' = [e |-> "access", i |-> i, s |-> s, was |-> lists[ListSlot(i, s)]]
  /\ exc' = NoExc
  /\ retreg' = None
  /\ UNCHANGED <<obj, scale, getter, widgets, display, changing_widgets, bound, stack>>
  /\ UNCHANGED <<methods, insts, eager, raising>>
  /\ UNCHANGED dispVars
  /\ UNCHANGED metaVars

\* S.listeners(i).append(l)
Register(i, s) ==
  /\ Idle
  /\ i \in insts
  /\ s \in methods
  /\ LET slot == ListSlot(i, s)
         got == GetListeners(lists, slot)
         n == UserCount(got[slot].l)
     IN /\ TotalUsers < MaxUser
        /\ lists' = [got EXCEPT ![slot].l = Append(@, UserL(i, s, n + 1))]
        /\ ev' = [e |-> "register", i |-> i, s |-> s]
  /\ exc' = NoExc
  /\ retreg' = None
  /\ UNCHANGED <<obj, scale, getter, widgets, display, changing_widgets, bound, stack>>
  /\ UNCHANGED <<methods, insts, eager, raising>>
  /\ UNCHANGED dispVars
  /\ UNCHANGED metaVars

\* i.s(v) called by the application, outside any control event
DirectCall(i, s, v) ==
  /\ Idle
  /\ i \in insts
  /\ s \in methods
  /\ stack' = <<NewfuncFrame(s, i, Layers(s), v)>>
  /\ ev' = [e |-> "call", i |-> i, s |-> s, arg |-> v]
  /\ exc' = NoExc
  /\ retreg' = None
  /\ UNCHANGED <<obj, lists, scale, getter, widgets, display, changing_widgets, bound>>
  /\ UNCHANGED <<methods, insts, eager, raising>>
  /\ UNCHANGED dispVars
  /\ UNCHANGED metaVars

\* Framework.get_obj_widget(i)
GetObjWidget(i) ==
  /\ Idle
  /\ i \in insts
  /\ i \notin bound
  /\ ~Attempted(i)
  /\ stack' = <<BindFrame(i)>>
  /\ ev' = [e |-> "bind", i |-> i]
  /\ exc' = NoExc
  /\ retreg' = None
  /\ UNCHANGED <<obj, lists, scale, getter, widgets, display, changing_widgets, bound>>
  /\ UNCHANGED <<methods, insts, eager, raising>>
  /\ UNCHANGED dispVars
  /\ UNCHANGED metaVars

\* the user moves a slider / types in a line edit: the control shows x and
\* its change signal runs the connected slot
UserEdit(w, x) ==
  /\ Idle
  /\ w \in widgets
  /\ WInst(w) \in bound
  /\ x # display[w]
  /\ display' = [display EXCEPT ![w] = x]
  /\ stack' = <<HandlerFrame(w, x)>>
  /\ ev' = [e |-> "edit", w |-> w, x |-> x]
  /\ exc' = NoExc
  /\ retreg' = None
  /\ UNCHANGED <<obj, lists, scale, getter, widgets, changing_widgets, bound>>
  /\ UNCHANGED <<methods, insts, eager, raising>>
  /\ UNCHANGED dispVars
  /\ UNCHANGED metaVars

\* ------------------------------------------------------------- newfunc
\* ret = func(self, *args): the body of test, test2 or height, or for a
\* stacked decorator the notifying setter below
CallFunc ==
  /\ ~Idle
  /\ Top.k = "newfunc"
  /\ Top.pc = "func"
  /\ LET f == Top
         raises == f.layer = 1 /\ f.s = "height" /\ FloatRaises(f.arg)
         e == IF raises THEN "ValueError" ELSE NoExc
         r == IF f.s = "height" THEN PyFloat(f.arg) ELSE None
         looping == [f EXCEPT !.pc = "loop", !.ret = r, !.fret = r, !.funcDone = TRUE]
     IN IF f.layer > 1
        THEN /\ stack' = Append(ReplaceTop([f EXCEPT !.pc = "funcwait"]),
                                NewfuncFrame(f.s, f.i, f.layer - 1, f.arg))
             /\ UNCHANGED <<obj, lists, exc, retreg>>
             /\ ev' = NoEv
        ELSE IF f.s = "test2"
        THEN /\ stack' = Append(ReplaceTop([f EXCEPT !.pc = "funcwait"]),
                                NewfuncFrame("test", f.i, Layers("test"), f.arg))
             /\ UNCHANGED <<obj, lists, exc, retreg>>
             /\ ev' = NoEv
        ELSE IF raises
        THEN /\ IF FuncErrorLeaves(e)
                THEN /\ exc' = e
                     /\ stack' = Pop
                     /\ ev' = ReturnEv([f EXCEPT !.fexc = e], NoExc)
                     /\ UNCHANGED lists
                ELSE /\ exc' = NoExc
                     /\ stack' = ReplaceTop([f EXCEPT !.pc = "loop", !.fexc = e])
                     /\ ev' = NoEv
                     /\ lists' = GetListeners(lists, ListSlot(f.i, f.s))
             /\ UNCHANGED <<obj, retreg>>
        ELSE /\ obj' = IF f.s = "height"
                       THEN [obj EXCEPT ![f.i].height = PyFloat(f.arg)]
                       ELSE [obj EXCEPT ![f.i].value = f.arg]
             /\ stack' = ReplaceTop(looping)
             /\ lists' = GetListeners(lists, ListSlot(f.i, f.s))
             /\ ev' = NoEv
             /\ UNCHANGED <<exc, retreg>>
  /\ UNCHANGED <<scale, getter, widgets, display, changing_widgets, bound>>
  /\ UNCHANGED <<methods, insts, eager, raising>>
  /\ UNCHANGED dispVars
  /\ UNCHANGED metaVars

\* the listeners the wrappers below this one invoked for the same call (the
\* wrapper below has just returned: ev is its return)
BelowOf(f) == IF f.layer > 1 THEN ev.below \o ev.invoked ELSE <<>>

\* the call made by func came back: its result, or its exception
FuncReturned ==
  /\ ~Idle
  /\ Top.k = "newfunc"
  /\ Top.pc = "funcwait"
  /\ LET f == Top
         r == IF f.layer > 1 THEN retreg ELSE None
     IN IF FuncErrorLeaves(exc)
        THEN /\ stack' = Pop
             /\ ev' = ReturnEv([f EXCEPT !.fexc = exc], NoExc)
             /\ UNCHANGED <<lists, exc>>
        ELSE /\ stack' = ReplaceTop([f EXCEPT !.pc = "loop", !.ret = r, !.fret = r,
                                              !.fexc = exc, !.funcDone = exc = NoExc,
                                              !.below = BelowOf(f)])
             /\ lists' = GetListeners(lists, ListSlot(f.i, f.s))
             /\ ev' = NoEv
             /\ exc' = NoExc
  /\ UNCHANGED <<obj, scale, getter, widgets, display, changing_widgets, bound, retreg>>
  /\ UNCHANGED <<methods, insts, eager, raising>>
  /\ UNCHANGED dispVars
  /\ UNCHANGED metaVars

InLoop ==
  /\ ~Idle
  /\ Top.k = "newfunc"
  /\ Top.pc = "loop"

LoopList == lists[ListSlot(Top.i, Top.s)].l

Invoked(f, l) ==
  [f EXCEPT !.idx = @ + 1, !.invoked = Append(@, l),
            !.pays = Append(@, Payload(f.ret, f.arg))]

\* for l in newfunc.listeners(self): a callable the user appended; it may raise
NotifyUser(raises) ==
  /\ InLoop
  /\ exc = NoExc
  /\ Top.idx <= Len(LoopList)
  /\ LET l == ListenerAt(LoopList, Top.idx)
     IN /\ l.k = "user"
        /\ stack' = ReplaceTop([Invoked(Top, l) EXCEPT !.lraised = raises])
        /\ ev' = [e |-> "listener", l |-> l, payload |-> Payload(Top.ret, Top.arg)]
        /\ exc' = IF raises /\ ListenerErrorLeaves("ListenerError")
                  THEN "ListenerError" ELSE NoExc
  /\ UNCHANGED <<obj, lists, scale, getter, widgets, display, changing_widgets, bound, retreg>>
  /\ UNCHANGED <<methods, insts, eager, raising>>
  /\ UNCHANGED dispVars
  /\ UNCHANGED metaVars

\* for l in newfunc.listeners(self): the adapter's updater of a control
NotifyUpdater ==
  /\ InLoop
  /\ exc = NoExc
  /\ Top.idx <= Len(LoopList)
  /\ LET l == ListenerAt(LoopList, Top.idx)
         w == l.w
         p == Payload(Top.ret, Top.arg)
         new == Forward(WKind(w), scale, p)
         base == ReplaceTop(Invoked(Top, l))
     IN /\ l.k = "upd"
        /\ IF UpdaterRuns(w, changing_widgets)
           THEN /\ display' = [display EXCEPT ![w] = new]
                /\ stack' = AfterSet(base, w, display[w], new)
                /\ ev' = [e |-> "reflect", w |-> w, payload |-> p,
                          inChanging |-> Member(w, changing_widgets)]
           ELSE /\ stack' = base
                /\ ev' = [e |-> "skipped", w |-> w, payload |-> p]
                /\ UNCHANGED display
  /\ UNCHANGED <<obj, lists, scale, getter, widgets, changing_widgets, bound, exc, retreg>>
  /\ UNCHANGED <<methods, insts, eager, raising>>
  /\ UNCHANGED dispVars
  /\ UNCHANGED metaVars

\* return ret
NewfuncReturn ==
  /\ InLoop
  /\ exc = NoExc
  /\ Top.idx > Len(LoopList)
  /\ retreg' = NewfuncResult(Top)
  /\ stack' = Pop
  /\ ev' = ReturnEv(Top, NoExc)
  /\ UNCHANGED <<obj, lists, scale, getter, widgets, display, changing_widgets, bound, exc>>
  /\ UNCHANGED <<methods, insts, eager, raising>>
  /\ UNCHANGED dispVars
  /\ UNCHANGED metaVars

\* a listener raised: the loop is left and the exception goes to the caller
ListenerRaised ==
  /\ InLoop
  /\ exc # NoExc
  /\ stack' = Pop
  /\ ev' = ReturnEv(Top, exc)
  /\ UNCHANGED <<obj, lists, scale, getter, widgets, display, changing_widgets, bound, exc, retreg>>
  /\ UNCHANGED <<methods, insts, eager, raising>>
  /\ UNCHANGED dispVars
  /\ UNCHANGED metaVars

\* ------------------------------------------------------------- widget_changing.setter
\* changing_widgets.append(widget); ret = func(*args)
HandlerStart ==
  /\ ~Idle
  /\ Top.k = "handler"
  /\ Top.pc = "start"
  /\ LET h == Top
         w == h.w
         arg == Inverse(WKind(w), scale, h.x)
     IN /\ changing_widgets' = EnterHandler(changing_widgets, w)
        /\ stack' = Append(ReplaceTop([h EXCEPT !.pc = "finally", !.calls = Append(@, arg)]),
                           NewfuncFrame(WSetter(w), WInst(w), Layers(WSetter(w)), arg))
  /\ ev' = NoEv
  /\ UNCHANGED <<obj, lists, scale, getter, widgets, display, bound, exc, retreg>>
  /\ UNCHANGED <<methods, insts, eager, raising>>
  /\ UNCHANGED dispVars
  /\ UNCHANGED metaVars

\* finally: changing_widgets.remove(widget); the slot ends and the toolkit
\* reports an exception that left it
HandlerFinally ==
  /\ ~Idle
  /\ Top.k = "handler"
  /\ Top.pc = "finally"
  /\ changing_widgets' = LeaveHandler(changing_widgets, Top.w, exc)
  /\ stack' = Pop
  /\ ev' = [e |-> "handlerExit", w |-> Top.w, x |-> Top.x, before |-> Top.before,
            calls |-> Top.calls, raised |-> exc, depth |-> Len(stack)]
  /\ exc' = NoExc
  /\ UNCHANGED <<obj, lists, scale, getter, widgets, display, bound, retreg>>
  /\ UNCHANGED <<methods, insts, eager, raising>>
  /\ UNCHANGED dispVars
  /\ UNCHANGED metaVars

\* ------------------------------------------------------------- get_widgets_for_method
\* one control: create it, connect its change signal, add_widget
AddWidget ==
  /\ ~Idle
  /\ Top.k = "bind"
  /\ Top.pos <= Len(BindSeq)
  /\ LET b == Top
         s == BindSeq[b.pos][1]
         w == <<b.i, s, BindSeq[b.pos][2]>>
         slot == ListSlot(b.i, s)
         got == GetListeners(lists, slot)
         curval == GetFunc(s, obj[b.i])
         new == Forward(WKind(w), scale, curval)
         base == ReplaceTop([b EXCEPT !.pos = @ + 1])
         init == InitFromGetter(getter[s]) /\ UpdaterRuns(w, changing_widgets)
     IN /\ lists' = [got EXCEPT ![slot].l = Append(@, Upd(w))]
        /\ IF InitFromGetter(getter[s]) /\ GetterRaises(s)
           THEN \* getfunc raises: nothing catches it up to get_obj_widget's caller
                /\ stack' = Pop
                /\ exc' = "GetterError"
                /\ ev' = [e |-> "bindAbort", i |-> b.i, w |-> w]
                /\ UNCHANGED <<widgets, display>>
           ELSE /\ widgets' = widgets \cup {w}
                /\ display' = IF init THEN [display EXCEPT ![w] = new] ELSE display
                /\ stack' = IF init THEN AfterSet(base, w, display[w], new) ELSE base
                /\ ev' = [e |-> "bound", w |-> w, init |-> init, payload |-> curval]
                /\ UNCHANGED exc
  /\ UNCHANGED <<obj, scale, getter, changing_widgets, bound, retreg>>
  /\ UNCHANGED <<methods, insts, eager, raising>>
  /\ UNCHANGED dispVars
  /\ UNCHANGED metaVars

\* get_obj_widget returns the dock widget
BindDone ==
  /\ ~Idle
  /\ Top.k = "bind"
  /\ Top.pos > Len(BindSeq)
  /\ bound' = bound \cup {Top.i}
  /\ stack' = Pop
  /\ ev' = [e |-> "bindDone", i |-> Top.i]
  /\ UNCHANGED <<obj, lists, scale, getter, widgets, display, changing_widgets, exc, retreg>>
  /\ UNCHANGED <<methods, insts, eager, raising>>
  /\ UNCHANGED dispVars
  /\ UNCHANGED metaVars

Next ==
  \/ \E i \in Instances, s \in Setters : AccessListeners(i, s)
  \/ \E i \in Instances, s \in Setters : Register(i, s)
  \/ \E i \in Instances, s \in Setters : \E v \in CallArgs(s) : DirectCall(i, s, v)
  \/ \E i \in Instances : GetObjWidget(i)
  \/ \E w \in Widgets : \E x \in EditValues(WKind(w)) : UserEdit(w, x)
  \/ CallFunc
  \/ FuncReturned
  \/ \E raises \in BOOLEAN : NotifyUser(raises)
  \/ NotifyUpdater
  \/ NewfuncReturn
  \/ ListenerRaised
  \/ HandlerStart
  \/ HandlerFinally
  \/ AddWidget
  \/ BindDone

Spec == Init /\ [][Next]_vars

\* the same program on a toolkit whose controls signal a change whenever
\* their value is set
EagerInit ==
  /\ insts = {"A"}
  /\ eager = TRUE
  /\ raising = {}
  /\ BindRest(Groups, {DefaultScale}, FALSE)
  /\ DispInit

\* the same program with getters that raise when the controls are built
BindFailInit ==
  /\ insts = {"A"}
  /\ eager = FALSE
  /\ BindRest(Groups, {DefaultScale}, FALSE)
  /\ raising \in SUBSET methods
  /\ DispInit

BindFailSpec == BindFailInit /\ [][Next]_vars

\* what the UI thread does next inside the call it is running
UiStep ==
  \/ CallFunc
  \/ FuncReturned
  \/ \E raises \in BOOLEAN : NotifyUser(raises)
  \/ NotifyUpdater
  \/ NewfuncReturn
  \/ ListenerRaised
  \/ HandlerStart
  \/ HandlerFinally
  \/ AddWidget
  \/ BindDone

\* a call the UI thread has started keeps running
EagerSpec == EagerInit /\ [][Next]_vars /\ WF_vars(UiStep)

\* ui_decorators.py on its own: two instances, no framework
CoreNext ==
  \/ \E i \in Instances, s \in Setters : AccessListeners(i, s)
  \/ \E i \in Instances, s \in Setters : Register(i, s)
  \/ \E i \in Instances, s \in Setters : \E v \in CallArgs(s) : DirectCall(i, s, v)
  \/ CallFunc
  \/ FuncReturned
  \/ \E raises \in BOOLEAN : NotifyUser(raises)
  \/ NewfuncReturn
  \/ ListenerRaised

CoreSpec == CoreInit /\ [][CoreNext]_vars


\* ------------------------------------------------------------- the dispatcher
\* the slot of a queued or direct _queue_updated delivery
DrainFrame == [k |-> "drain", id |-> 0]
TaskFrame(id) == [k |-> "task", id |-> id]
UTop == ustack[Len(ustack)]
NextTask == Len(issued) + 1

\* (variant) a LIFO queue: get takes the newest entry
QHead_Newest(qq) == qq[Len(qq)]

\* (variant) get replaced by a look at the head that leaves it queued
QRest_Peek(qq) == qq

\* Queue.put appends at the tail, Queue.get takes the head
QPut(qq, id) == Append(qq, id)
QHead(qq) == Head(qq)
QRest(qq) == Tail(qq)

\* (variant) deliveries not yet made are merged into one
Queued_Merged(n) == 1

\* emit() from another thread queues one delivery for the UI thread's loop
Queued(n) == n + 1

bindFrozen == <<methods, insts, eager, raising, obj, lists, scale, getter, widgets, display,
                changing_widgets, bound, stack, exc, retreg, ev>>

\* run_on_ui_thread on a worker thread: self.q.put(f)
WorkerPut ==
  /\ NextTask <= MaxTasks
  /\ q' = QPut(q, NextTask)
  /\ issued' = Append(issued, NextTask)
  /\ emitting' = emitting \cup {NextTask}
  /\ late' = IF ustack # <<>> THEN late \cup {NextTask} ELSE late
  /\ UNCHANGED <<pending, ustack, started, raisedTasks, stranded>>
  /\ UNCHANGED bindFrozen
  /\ UNCHANGED metaVars

\* run_on_ui_thread on a worker thread: self._queue_updated.emit()
WorkerEmit(id) ==
  /\ id \in emitting
  /\ emitting' = emitting \ {id}
  /\ pending' = Queued(pending)
  /\ UNCHANGED <<q, ustack, issued, started, raisedTasks, late, stranded>>
  /\ UNCHANGED bindFrozen
  /\ UNCHANGED metaVars

\* the event loop delivers one queued signal: on_queue_updated is entered
Deliver ==
  /\ ustack = <<>>
  /\ pending > 0
  /\ pending' = pending - 1
  /\ ustack' = <<DrainFrame>>
  /\ UNCHANGED <<q, emitting, issued, started, raisedTasks, late, stranded>>
  /\ UNCHANGED bindFrozen
  /\ UNCHANGED metaVars

\* while not self.q.empty(): f = self.q.get(); f()
DrainTake ==
  /\ ustack # <<>>
  /\ UTop.k = "drain"
  /\ q # <<>>
  /\ q' = QRest(q)
  /\ started' = Append(started, QHead(q))
  /\ ustack' = Append(ustack, TaskFrame(QHead(q)))
  /\ UNCHANGED <<pending, emitting, issued, raisedTasks, late, stranded>>
  /\ UNCHANGED bindFrozen
  /\ UNCHANGED metaVars

\* the queue is empty when the loop tests it: on_queue_updated returns
DrainExit ==
  /\ ustack # <<>>
  /\ UTop.k = "drain"
  /\ q = <<>>
  /\ ustack' = SubSeq(ustack, 1, Len(ustack) - 1)
  /\ UNCHANGED <<q, pending, emitting, issued, started, raisedTasks, late, stranded>>
  /\ UNCHANGED bindFrozen
  /\ UNCHANGED metaVars

\* f() returns
TaskReturn ==
  /\ ustack # <<>>
  /\ UTop.k = "task"
  /\ ustack' = SubSeq(ustack, 1, Len(ustack) - 1)
  /\ UNCHANGED <<q, pending, emitting, issued, started, raisedTasks, late, stranded>>
  /\ UNCHANGED bindFrozen
  /\ UNCHANGED metaVars

\* f() raises: the exception leaves on_queue_updated, whose caller (the
\* signal delivery) reports it
TaskRaise ==
  /\ ustack # <<>>
  /\ UTop.k = "task"
  /\ raisedTasks' = raisedTasks \cup {UTop.id}
  /\ stranded' = stranded \cup {q[k] : k \in 1..Len(q)}
  /\ ustack' = SubSeq(ustack, 1, Len(ustack) - 2)
  /\ UNCHANGED <<q, pending, emitting, issued, started, late>>
  /\ UNCHANGED bindFrozen
  /\ UNCHANGED metaVars

\* f() itself calls run_on_ui_thread: the put, then emit() on the receiver's
\* own thread, which runs the connected slot before emit returns
TaskDispatch ==
  /\ ustack # <<>>
  /\ UTop.k = "task"
  /\ NextTask <= MaxTasks
  /\ q' = QPut(q, NextTask)
  /\ issued' = Append(issued, NextTask)
  /\ ustack' = Append(ustack, DrainFrame)
  /\ UNCHANGED <<pending, emitting, started, raisedTasks, late, stranded>>
  /\ UNCHANGED bindFrozen
  /\ UNCHANGED metaVars

DispatchNext ==
  \/ WorkerPut
  \/ \E id \in 1..MaxTasks : WorkerEmit(id)
  \/ Deliver
  \/ DrainTake
  \/ DrainExit
  \/ TaskReturn
  \/ TaskRaise
  \/ TaskDispatch

DispatchSpec == DispatchInit /\ [][DispatchNext]_vars

\* the event loop keeps delivering signals and running the slot, every call
\* of run_on_ui_thread gets to its emit, and every task ends
DispatchFair ==
  /\ WF_vars(Deliver)
  /\ WF_vars(DrainTake)
  /\ WF_vars(DrainExit)
  /\ WF_vars(TaskReturn \/ TaskRaise)
  /\ \A id \in 1..MaxTasks : WF_vars(WorkerEmit(id))

LiveDispatchSpec == DispatchSpec /\ DispatchFair


\* ------------------------------------------------------------- metadata
MaxObjs == 3         \* function objects in one run

\* the attribute names and records the decorators attach
MetaNames == {"_slider", "_textbox"}
MetaProps == {"getfunc", "nogetfunc"}
Bodies == {"test", "height"}

\* a fresh function has an empty __dict__
NoAttrs == [n \in {} |-> "getfunc"]

\* def f(...): a plain function with the body of Test.test or Test.height
PlainFunc(b) == [inner |-> 0, body |-> b, name |-> "", props |-> "", attrs |-> NoAttrs]

\* what the body does with one argument: its result, or its exception
BodyOutcome(b, arg) ==
  IF b = "height"
  THEN IF FloatRaises(arg) THEN [ret |-> None, exc |-> "ValueError"]
       ELSE [ret |-> PyFloat(arg), exc |-> NoExc]
  ELSE [ret |-> None, exc |-> NoExc]

\* (variant) the wrapper defined without @wraps(func)
WrapsDict_None(attrs) == NoAttrs

\* @wraps(func): the wrapper's __dict__ is updated with func's
WrapsDict(attrs) == attrs

\* setattr(wrapped_metadata, name, props)
SetAttr(attrs, name, props) ==
  [n \in (DOMAIN attrs) \cup {name} |-> IF n = name THEN props ELSE attrs[n]]

\* (variant) the wrapper calling func without returning its result
WrappedMetadata_NoReturn(out) == [ret |-> None, exc |-> out.exc]

\* wrapped_metadata: return func(*args, **kwargs)
WrappedMetadata(out) == out

\* metadata(name, props)(func): the wrapper metadata_imp returns
MetadataImp(k, name, props) ==
  [inner |-> k, body |-> "", name |-> name, props |-> props,
   attrs |-> SetAttr(WrapsDict(fobjs[k].attrs), name, props)]

\* calling a function object: a plain function runs its body, a wrapper
\* calls the function it wraps
RECURSIVE CallObj(_, _, _)
CallObj(fs, k, arg) ==
  IF fs[k].inner = 0 THEN BodyOutcome(fs[k].body, arg)
  ELSE WrappedMetadata(CallObj(fs, fs[k].inner, arg))

MetaInit ==
  /\ insts = {"A"}
  /\ eager = FALSE
  /\ raising = {}
  /\ BindRest({{"height"}}, {DefaultScale}, FALSE)
  /\ q = <<>>
  /\ pending = 0
  /\ emitting = {}
  /\ ustack = <<>>
  /\ issued = <<>>
  /\ started = <<>>
  /\ raisedTasks = {}
  /\ late = {}
  /\ stranded = {}
  /\ fobjs \in {<<PlainFunc(b)>> : b \in Bodies}
  /\ mcall = NoCall

\* @metadata(name, props) applied to the function object k
Annotate(k, name, props) ==
  /\ k \in 1..Len(fobjs)
  /\ Len(fobjs) < MaxObjs
  /\ fobjs' = Append(fobjs, MetadataImp(k, name, props))
  /\ UNCHANGED mcall
  /\ UNCHANGED bindFrozen
  /\ UNCHANGED dispVars

\* the function object k called with one argument
CallAnnotated(k, arg) ==
  /\ k \in 1..Len(fobjs)
  /\ mcall' = [e |-> "call", k |-> k, arg |-> arg, out |-> CallObj(fobjs, k, arg)]
  /\ UNCHANGED fobjs
  /\ UNCHANGED bindFrozen
  /\ UNCHANGED dispVars

MetaNext ==
  \/ \E k \in 1..MaxObjs, name \in MetaNames, props \in MetaProps : Annotate(k, name, props)
  \/ \E k \in 1..MaxObjs, arg \in CallArgs("height") : CallAnnotated(k, arg)

MetaSpec == MetaInit /\ [][MetaNext]_vars


\* ============================================================= claims
NormalReturn == ev.e = "return" /\ ev.fexc = NoExc /\ ev.lexc = NoExc

NewfuncFrames == {k \in 1..Len(stack) : stack[k].k = "newfunc"}

C2_PayloadAndResult ==
  /\ ev.e = "return" =>
       \A k \in 1..Len(ev.pays) :
          ev.pays[k] = IF ev.fret.t # "none" THEN ev.fret ELSE ev.arg
  /\ NormalReturn => retreg = ev.fret

\* height(0) returned 0.0, which is falsy, and notified a listener with it
C2_Witness ==
  /\ NormalReturn
  /\ ev.fret = FloatV(0)
  /\ ev.arg = IntV(0)
  /\ Len(ev.pays) >= 1
  /\ retreg = FloatV(0)

\* C3: a call on one instance invokes only listeners appended to that
\* instance's list of that setter, and an access to listeners(i) yields the
\* list already stored, empty when it is the first.
C3_ListsPerInstance ==
  /\ \A k \in NewfuncFrames :
        \A n \in 1..Len(stack[k].invoked) :
           stack[k].invoked[n].i = stack[k].i /\ stack[k].invoked[n].s = stack[k].s
  /\ ev.e = "return" =>
        \A n \in 1..Len(ev.invoked) : ev.invoked[n].i = ev.i /\ ev.invoked[n].s = ev.s
  /\ ev.e = "access" =>
        /\ lists[<<ev.i, ev.s>>].has
        /\ lists[<<ev.i, ev.s>>].l = IF ev.was.has THEN ev.was.l ELSE <<>>

\* a call on B returned without invoking anything while A's list of the
\* same setter holds a listener
C3_Witness ==
  /\ NormalReturn
  /\ ev.i = "B"
  /\ ev.invoked = <<>>
  /\ lists[<<"A", ev.s>>].l # <<>>
  /\ lists[<<"B", ev.s>>].has

\* C4: when the underlying setter raises, the call invokes no listener and
\* the exception that reaches the caller is the one the setter raised.
C4_SetterRaiseSkipsListeners ==
  (ev.e = "return" /\ ev.fexc # NoExc) =>
     /\ ev.invoked = <<>>
     /\ ev.lexc = NoExc
     /\ exc = ev.fexc

\* height("") raised ValueError with listeners registered
C4_Witness ==
  /\ ev.e = "return"
  /\ ev.fexc = "ValueError"
  /\ exc = "ValueError"
  /\ Len(ev.snap) >= 2

ActiveHandlers == {k \in 1..Len(stack) : stack[k].k = "handler" /\ stack[k].pc = "finally"}

\* C5: the change slot of a control calls the setter once, with the
\* inverse-mapped value; the control is in changing_widgets while that call
\* runs; and no reflect-update is applied to a control in changing_widgets.
C5_GuardCorrect ==
  /\ ev.e = "handlerExit" =>
        /\ Len(ev.calls) = 1
        /\ ev.calls[1] = IF WKind(ev.w) = "slider"
                         THEN [t |-> "int", n |-> ev.x.n \div scale]
                         ELSE ev.x
  /\ \A k \in ActiveHandlers : Member(stack[k].w, changing_widgets)
  /\ ev.e = "reflect" =>
        /\ ~ev.inChanging
        /\ \A k \in ActiveHandlers : stack[k].w # ev.w

\* during an edit of a control, the setter's notification reached that
\* control's updater, which left it alone
C5_Witness ==
  /\ ev.e = "skipped"
  /\ Member(ev.w, changing_widgets)
  /\ \E k \in ActiveHandlers : stack[k].w = ev.w /\ Len(stack[k].calls) = 1

\* C6: when a change slot ends, normally or by an exception, changing_widgets
\* is what it was when the slot started; with no slot running it is empty.
C6_ChangingReleased ==
  /\ ev.e = "handlerExit" => changing_widgets = ev.before
  /\ Idle => changing_widgets = <<>>

\* a slot that ran inside another control's slot ended by an exception
C6_Witness ==
  /\ ev.e = "handlerExit"
  /\ ev.raised # NoExc
  /\ ev.before # <<>>
  /\ changing_widgets = ev.before


\* a direct call i.s(v) has just returned normally to the application
DirectCallReturned == Idle /\ NormalReturn

BoundTo(i, s) == {w \in widgets : WInst(w) = i /\ WSetter(w) = s}

\* what a control shows once update_widget was given p
Shown(kind, p) ==
  IF kind = "slider" THEN [t |-> "int", n |-> p.n * scale]
  ELSE IF p.t = "int" THEN [t |-> "str", n |-> p.n]
  ELSE IF p.t = "float" THEN [t |-> "fstr", n |-> p.n]
  ELSE p

\* C7 as stated: after a direct call S(i, v) outside any control event, the
\* updater of every control bound to S on i was invoked and each such control
\* displays the forward mapping of v.
C7_Original ==
  DirectCallReturned =>
     \A w \in BoundTo(ev.i, ev.s) :
        /\ Member(Upd(w), ev.invoked)
        /\ display[w] = Shown(WKind(w), ev.arg)

\* C7 amended: ... each such control displays the forward mapping of the
\* value the listeners were passed: S's return value when it is not None,
\* else v.
C7_DirectCallReflects ==
  DirectCallReturned =>
     \A w \in BoundTo(ev.i, ev.s) :
        /\ Member(Upd(w), ev.invoked)
        /\ display[w] = Shown(WKind(w), IF ev.fret.t # "none" THEN ev.fret ELSE ev.arg)

\* height(1) returned 1.0 to the application with both controls bound, the
\* slider decorated with a scale of 2
C7_Witness ==
  /\ DirectCallReturned
  /\ ev.s = "height"
  /\ ev.arg = IntV(1)
  /\ scale = DefaultScale + 1
  /\ Cardinality(BoundTo(ev.i, ev.s)) = 2
  /\ display[<<ev.i, "height", "textbox">>] = FStrV(1)
  /\ display[<<ev.i, "height", "slider">>] = IntV(2)

GetterValue(i, s) == IF s = "height" THEN obj[i].height ELSE obj[i].value

\* C8: add_widget of a control whose decorator has a getfunc invokes the
\* control's updater with getfunc(instance), and when get_obj_widget returns
\* every such control displays the forward mapping of its getter's value;
\* add_widget of a control without getfunc makes no reflect-update and
\* leaves the control as created.
C8_InitialisedFromGetter ==
  /\ (ev.e = "bound" /\ getter[WSetter(ev.w)]) =>
        /\ ev.init
        /\ ev.payload = GetterValue(WInst(ev.w), WSetter(ev.w))
        /\ display[ev.w] = Shown(WKind(ev.w), ev.payload)
  /\ (ev.e = "bound" /\ ~getter[WSetter(ev.w)]) =>
        /\ ~ev.init
        /\ display[ev.w] = IF WKind(ev.w) = "slider" THEN IntV(0) ELSE EmptyText
        /\ Top.k = "bind"
  /\ ev.e = "bindDone" =>
        \A w \in widgets :
           (WInst(w) = ev.i /\ getter[WSetter(w)]) =>
              display[w] = Shown(WKind(w), GetterValue(ev.i, WSetter(w)))

\* get_obj_widget returned with a control showing its getter's value, which
\* is not what a fresh control shows
C8_Witness ==
  /\ ev.e = "bindDone"
  /\ \E w \in widgets :
        /\ getter[WSetter(w)]
        /\ display[w] # DefaultDisplay(WKind(w))
        /\ display[w] = Shown(WKind(w), GetterValue(ev.i, WSetter(w)))

Quiescent == ustack = <<>> /\ pending = 0 /\ emitting = {}

\* C9: tasks start in the order they were put on the queue, none twice
\* (the started tasks followed by the queued ones are the accepted ones), and
\* once every signal is delivered and the slot has returned every accepted
\* task has started.
C9_DispatchFifo ==
  /\ issued = started \o q
  /\ Quiescent => started = issued

\* three tasks, one of them put while on_queue_updated was running, all run
C9_Witness ==
  /\ Quiescent
  /\ Len(started) >= 3
  /\ late # {}

\* C10: a task put on the queue is eventually started, whenever it was put.
C10_NoLostWakeup ==
  \A id \in 1..MaxTasks : (Len(issued) >= id) ~> Member(id, started)

\* a task a worker put while on_queue_updated was running has started
C10_Witness ==
  \E id \in late : Member(id, started)

ActiveDrains == {k \in 1..Len(ustack) : ustack[k].k = "drain"}
RunningTasks == {k \in 1..Len(ustack) : ustack[k].k = "task"}

\* C11 as stated: at most one execution of on_queue_updated is active at any
\* time and no dispatched task starts while another is still running, also
\* when a running task calls run_on_ui_thread on the UI thread.
C11_DrainsNeverOverlap ==
  /\ Cardinality(ActiveDrains) <= 1
  /\ Cardinality(RunningTasks) <= 1

Sliders(i, s) == {w \in BoundTo(i, s) : WKind(w) = "slider"}

\* C12: a raw change of a slider to position r calls the setter with r / scale
\* (r itself when the scale is 1), and a direct call S(i, v) that returns
\* leaves the raw position of S's slider at v * scale (v when the scale is 1).
C12_SliderRoundTrip ==
  /\ (ev.e = "handlerExit" /\ WKind(ev.w) = "slider") =>
        /\ ev.calls = << [t |-> "int", n |-> ev.x.n \div scale] >>
        /\ scale = 1 => ev.calls = <<ev.x>>
  /\ DirectCallReturned =>
        \A w \in Sliders(ev.i, ev.s) :
           /\ display[w] = [t |-> "int", n |-> ev.arg.n * scale]
           /\ scale = 1 => display[w].n = ev.arg.n

\* test(1) returned with test's slider, decorated with a scale of 2, at raw
\* position 2, after the slider's own change slot ran for that position
C12_Witness ==
  /\ DirectCallReturned
  /\ ev.s = "test"
  /\ ev.arg = IntV(1)
  /\ scale = DefaultScale + 1
  /\ Sliders(ev.i, ev.s) # {}
  /\ \A w \in Sliders(ev.i, ev.s) : display[w] = IntV(2)
  /\ obj[ev.i].value = IntV(1)

\* the setter the application or a control called at the bottom of the stack
RootSetter ==
  IF stack = <<>> THEN "none"
  ELSE IF stack[1].k = "newfunc" THEN stack[1].s
  ELSE IF stack[1].k = "handler" THEN WSetter(stack[1].w)
  ELSE "none"

Test2Updates ==
  /\ (DirectCallReturned /\ ev.s = "test2") =>
        \A w \in BoundTo(ev.i, "test") : display[w] = Shown(WKind(w), ev.arg)
  /\ (ev.e = "handlerExit" /\ WSetter(ev.w) = "test2" /\ ev.raised = NoExc) =>
        \A w \in BoundTo(WInst(ev.w), "test") :
           display[w] = Shown(WKind(w), [t |-> "int", n |-> ev.x.n \div scale])

TestLeavesTest2 ==
  RootSetter = "test" =>
     \A i \in Instances :
        display'[<<i, "test2", "slider">>] = display[<<i, "test2", "slider">>]

\* C13: a call of test2, by the application or by test2's control, that ends
\* normally leaves the control bound to test showing the value test2 was
\* given; no step of a call of test changes what test2's control shows.
C13_Cascade == []Test2Updates /\ [][TestLeavesTest2]_vars

\* test(0) returned with test's slider at 0 while test2's slider still shows
\* the position both were given through test2
C13_Witness ==
  /\ DirectCallReturned
  /\ ev.s = "test"
  /\ ev.arg = IntV(0)
  /\ <<ev.i, "test2", "slider">> \in widgets
  /\ display[<<ev.i, "test", "slider">>] = IntV(0)
  /\ display[<<ev.i, "test2", "slider">>] = IntV(scale)
  /\ Member(Upd(<<ev.i, "test", "slider">>), ev.invoked)

\* the plain function at the bottom of the wrappers of k
RECURSIVE RootBody(_, _)
RootBody(fs, k) == IF fs[k].inner = 0 THEN fs[k].body ELSE RootBody(fs, fs[k].inner)

Wrappers == {k \in 1..Len(fobjs) : fobjs[k].inner # 0}

\* a call of a wrapper gives what the plain function gives: the same result,
\* or the same exception
MetaCallTransparent ==
  mcall.e = "call" =>
     LET b == RootBody(fobjs, mcall.k)
         r == IF b = "height" /\ mcall.arg.t \in {"int", "float"}
              THEN [t |-> "float", n |-> mcall.arg.n] ELSE None
         x == IF b = "height" /\ mcall.arg.t \notin {"int", "float"}
              THEN "ValueError" ELSE NoExc
     IN mcall.out = [ret |-> r, exc |-> x]

\* the record is on the wrapper under the name it was given
MetaReadable ==
  \A k \in Wrappers :
     fobjs[k].name \in DOMAIN fobjs[k].attrs /\ fobjs[k].attrs[fobjs[k].name] = fobjs[k].props

\* no function object's attributes change once it exists; a plain function has none
MetaOriginalUntouched ==
  \A k \in 1..Len(fobjs) : fobjs'[k].attrs = fobjs[k].attrs

PlainHasNone == \A k \in 1..Len(fobjs) : fobjs[k].inner = 0 => DOMAIN fobjs[k].attrs = {}

\* a wrapper exposes every record of the function it wraps
MetaStackKeepsAll ==
  \A k \in Wrappers :
     \A n \in DOMAIN fobjs[fobjs[k].inner].attrs :
        n \in DOMAIN fobjs[k].attrs /\ fobjs[k].attrs[n] = fobjs[fobjs[k].inner].attrs[n]

MetaStackKeepsOthers ==
  \A k \in Wrappers :
     \A n \in (DOMAIN fobjs[fobjs[k].inner].attrs) \ {fobjs[k].name} :
        n \in DOMAIN fobjs[k].attrs /\ fobjs[k].attrs[n] = fobjs[fobjs[k].inner].attrs[n]

\* C14 as stated: the wrapper returns what f returns and raises what f raises,
\* the record is readable on the wrapper under the given name, the original
\* operation gains no attribute, and a wrapper stacked on an annotated
\* operation exposes every record attached below it.
C14_Original ==
  /\ [](MetaCallTransparent /\ MetaReadable /\ PlainHasNone /\ MetaStackKeepsAll)
  /\ [][MetaOriginalUntouched]_vars

\* C14 amended: the wrapper returns what f returns and raises what f raises,
\* the record is readable on the wrapper under the given name, the original
\* operation gains no attribute, and a wrapper stacked on an
\* annotated operation exposes every record attached below it under a name
\* other than its own (a record below under the same name is replaced).
C14_MetadataTransparent ==
  /\ [](MetaCallTransparent /\ MetaReadable /\ PlainHasNone /\ MetaStackKeepsOthers)
  /\ [][MetaOriginalUntouched]_vars

\* a wrapper over a wrapper over height, annotated under two names, was called
\* with text that float() rejects: both records are readable and the
\* ValueError came through
C14_Witness ==
  /\ Len(fobjs) = 3
  /\ fobjs[3].inner = 2
  /\ fobjs[2].inner = 1
  /\ fobjs[3].name # fobjs[2].name
  /\ DOMAIN fobjs[3].attrs = MetaNames
  /\ mcall.e = "call"
  /\ mcall.k = 3
  /\ mcall.out.exc = "ValueError"

\* how often the whole call (all its wrappers) invoked the listener l
TimesInvoked(l) ==
  Cardinality({n \in 1..Len(ev.below \o ev.invoked) : (ev.below \o ev.invoked)[n] = l})

OutermostReturn == NormalReturn /\ ev.layer = Layers(ev.s)

\* C15 as stated: one call of a setter carrying two stacked value annotations
\* invokes each listener registered for the instance exactly once, so each of
\* the two bound controls gets one reflect-update per call.
C15_StackedNotifyOnce ==
  (OutermostReturn /\ Layers(ev.s) > 1) =>
     \A n \in 1..Len(ev.snap) : TimesInvoked(ev.snap[n]) = 1

\* setter calls on the stack (a stacked setter counts once)
SetterDepth ==
  Cardinality({k \in 1..Len(stack) :
                 stack[k].k = "newfunc" /\ stack[k].layer = Layers(stack[k].s)})

\* setter calls on the stack made by the application or by a change slot
EnteredDepth ==
  Cardinality({k \in 1..Len(stack) :
                 /\ stack[k].k = "newfunc"
                 /\ stack[k].layer = Layers(stack[k].s)
                 /\ (k = 1 \/ stack[k - 1].k = "handler")})

HandlerFramesOf(w) == {k \in 1..Len(stack) : stack[k].k = "handler" /\ stack[k].w = w}

Terminates == (~Idle) ~> Idle

\* C16 as stated: with controls that signal every set, a user edit or a direct
\* setter call on an object with N bound controls terminates with at most
\* N + 1 setter invocations nested.
C16_Original ==
  /\ [](RootSetter # "none" => SetterDepth <= Cardinality(widgets) + 1)
  /\ Terminates

\* C16 amended: ... terminates, no control's change slot runs inside itself,
\* and at most N + 1 setter invocations made by the caller or by a change slot
\* are nested (a setter that itself calls a setter, as test2 calls test, nests
\* that call in addition).
C16_NoFeedbackLoop ==
  /\ [](RootSetter # "none" => EnteredDepth <= Cardinality(widgets) + 1)
  /\ [](\A w \in Widgets : Cardinality(HandlerFramesOf(w)) <= 1)
  /\ Terminates

\* a direct call of test2 with both sliders bound: test2's slider signalled
\* the reflect-update, its slot called test2, and test's slider signalled in
\* turn; three entered calls and four setter calls are nested
C16_Witness ==
  /\ eager
  /\ RootSetter = "test2"
  /\ stack[1].k = "newfunc"
  /\ Cardinality(widgets) = 2
  /\ EnteredDepth = 3
  /\ SetterDepth = 4

\* C17: every task on the queue has a wake-up of its own still to come or a
\* drain under way (its put is followed by a signal), so when no
\* run_on_ui_thread call is between put and signal, no signal is pending and
\* no drain is in progress, the queue is empty.
C17_IdleInvariant ==
  /\ Len(q) + Cardinality(RunningTasks)
        <= pending + Cardinality(emitting) + Cardinality(ActiveDrains)
  /\ (emitting = {} /\ pending = 0 /\ ActiveDrains = {}) => q = <<>>

\* the dispatcher is idle again after a drain was cut short by a raising
\* task while other tasks were queued
C17_Witness ==
  /\ emitting = {}
  /\ pending = 0
  /\ ustack = <<>>
  /\ q = <<>>
  /\ stranded # {}
  /\ Len(started) >= 2

TimesStarted(id) == Cardinality({k \in 1..Len(started) : started[k] = id})

RaisedNotRerun ==
  \A r \in raisedTasks : ~Member(r, q) /\ TimesStarted(r) = 1

StrandedKept ==
  /\ issued = started \o q
  /\ \A id \in stranded :
        /\ TimesStarted(id) + Cardinality({k \in 1..Len(q) : q[k] = id}) = 1
        /\ Member(id, q) => pending + Cardinality(emitting) + Cardinality(ActiveDrains) > 0

\* C18: a task that raised is off the queue and ran once; every task that was
\* queued when the raise ended the drain stays queued in enqueue order, with a
\* drain still to come, until it is started, once, and it is started.
C18_RaisingTaskIsolated ==
  /\ [](RaisedNotRerun /\ StrandedKept)
  /\ \A id \in 1..MaxTasks : (id \in stranded) ~> Member(id, started)

\* two tasks were queued behind a task that raised; a later drain ran both,
\* in the order they were put
C18_Witness ==
  /\ raisedTasks # {}
  /\ Cardinality(stranded) >= 2
  /\ \A id \in stranded : Member(id, started)
  /\ ustack = <<>>
  /\ q = <<>>

ListenerRaisedReturn == ev.e = "return" /\ ev.lraised

\* C19: when a listener raises, the call ends there: the listeners invoked are
\* the list up to and including that one, the exception reaches the caller,
\* and the instance keeps the value the setter stored.
C19_ListenersNotIsolated ==
  ListenerRaisedReturn =>
     LET lst == lists[<<ev.i, ev.s>>].l
         n == Len(ev.invoked)
     IN /\ ev.lexc # NoExc
        /\ exc = ev.lexc
        /\ n >= 1
        /\ n <= Len(lst)
        /\ ev.invoked = SubSeq(lst, 1, n)
        /\ ev.invoked[n].k = "user"
        /\ ev.funcDone
        /\ GetterValue(ev.i, ev.s) = IF ev.fret.t # "none" THEN ev.fret ELSE ev.arg

\* the first listener of test(1) raised: the slider's updater registered
\* after it was not invoked, and value is 1
C19_Witness ==
  /\ ListenerRaisedReturn
  /\ Len(ev.invoked) = 1
  /\ Len(lists[<<ev.i, ev.s>>].l) >= 2
  /\ lists[<<ev.i, ev.s>>].l[2].k = "upd"
  /\ ev.arg = IntV(1)
  /\ GetterValue(ev.i, ev.s).n = 1
  /\ exc = "ListenerError"

\* the controls get_obj_widget would create for setters whose getter works
OtherControls(i) ==
  {<<i, BindSeq[k][1], BindSeq[k][2]>> : k \in {n \in 1..Len(BindSeq) : BindSeq[n][1] \notin raising}}

\* C20 as stated: when the getter of one annotated setter raises at bind time,
\* the controls of the other annotated setters of the object are still bound
\* and no reflect-listener of the aborted control stays registered.
C20_ConstructionIsolated ==
  ev.e = "bindAbort" =>
     /\ OtherControls(ev.i) \subseteq widgets
     /\ ~Member(Upd(ev.w), lists[<<WInst(ev.w), WSetter(ev.w)>>].l)

====
